---- MODULE Spec2Model ----
(***************************************************************************)
(* A model of t9d: the T9 prediction engine (t9d/engine.py), the overlay   *)
(* window (t9d/overlay.py) and the application controller (t9d/app.py).    *)
(*                                                                         *)
(* A Python string is a sequence of one-character strings, so a word is    *)
(* <<"c", "a", "t">> and a digit-string is <<"8", "8", "2">>.  Python's    *)
(* 0-based list positions are kept in the state; TLA+ sequences are        *)
(* 1-based, so element i of a list l is l[i + 1].                          *)
(***************************************************************************)
EXTENDS Integers, Sequences, FiniteSets, TLC

\* ---------------------------------------------------------------- bounds

\* The longest digit sequence that is composed.
MaxSeq == 2

\* The largest total of personal-dictionary counts (the number of learns).
MaxLearn == 2

\* The largest value the punctuation cursor is driven to under Spec.
MaxPunct == 1

\* Under CursorSpec the punctuation cursor is driven past the end of the
\* default list, and the composition is kept short to make room for that.
MaxCursor == 14
CursorMaxSeq == 1

\* ------------------------------------------------ character/digit tables

T9_MAP ==
    [d \in {"1", "2", "3", "4", "5", "6", "8", "9"} |->
        CASE d = "1" -> <<"p", "q", "r", "s">>
          [] d = "2" -> <<"t", "u", "v">>
          [] d = "3" -> <<"w", "x", "y", "z">>
          [] d = "4" -> <<"g", "h", "i">>
          [] d = "5" -> <<"j", "k", "l">>
          [] d = "6" -> <<"m", "n", "o">>
          [] d = "8" -> <<"a", "b", "c">>
          [] d = "9" -> <<"d", "e", "f">>]

\* The character U+0153 (the oe ligature) is written "oe".
DIACRITIC_MAP ==
    [c \in {"å", "ä", "ö", "ü", "ß", "é", "è", "ê", "ë", "à", "â",
            "î", "ï", "ô", "oe", "ù", "û", "ç", "ñ", "æ", "ø"} |->
        CASE c \in {"å", "ä", "à", "â", "ç", "æ"} -> "2"
          [] c \in {"ö", "ô", "oe", "ñ", "ø"} -> "6"
          [] c \in {"ü", "ù", "û"} -> "8"
          [] c = "ß" -> "7"
          [] c \in {"é", "è", "ê", "ë"} -> "3"
          [] c \in {"î", "ï"} -> "4"]

Range(s) == {s[i] : i \in 1..Len(s)}

T9Letters == UNION {Range(T9_MAP[d]) : d \in DOMAIN T9_MAP}

\* mapping.update(DIACRITIC_MAP): a diacritic entry wins over a letter entry.
CHAR_TO_DIGIT ==
    [c \in T9Letters \cup DOMAIN DIACRITIC_MAP |->
        IF c \in DOMAIN DIACRITIC_MAP
        THEN DIACRITIC_MAP[c]
        ELSE CHOOSE d \in DOMAIN T9_MAP : c \in Range(T9_MAP[d])]

\* ---------------------------------------------------------- Python strings

\* ord(c) of the characters that words, punctuation and fallbacks are made of.
CodePoint ==
    [c \in {" ", "!", "#", "'", "-", "?", "A", "B", "C", "T",
            "a", "b", "c", "d", "e", "f", "g", "h", "i", "j", "k", "l", "m",
            "n", "o", "p", "q", "r", "s", "t", "u", "v", "w", "x", "y", "z",
            "ß", "ä", "å", "ö"} |->
        CASE c = " " -> 32 [] c = "!" -> 33 [] c = "#" -> 35 [] c = "'" -> 39
          [] c = "-" -> 45 [] c = "?" -> 63
          [] c = "A" -> 65 [] c = "B" -> 66 [] c = "C" -> 67 [] c = "T" -> 84
          [] c = "a" -> 97 [] c = "b" -> 98 [] c = "c" -> 99 [] c = "d" -> 100
          [] c = "e" -> 101 [] c = "f" -> 102 [] c = "g" -> 103
          [] c = "h" -> 104 [] c = "i" -> 105 [] c = "j" -> 106
          [] c = "k" -> 107 [] c = "l" -> 108 [] c = "m" -> 109
          [] c = "n" -> 110 [] c = "o" -> 111 [] c = "p" -> 112
          [] c = "q" -> 113 [] c = "r" -> 114 [] c = "s" -> 115
          [] c = "t" -> 116 [] c = "u" -> 117 [] c = "v" -> 118
          [] c = "w" -> 119 [] c = "x" -> 120 [] c = "y" -> 121
          [] c = "z" -> 122
          [] c = "ß" -> 223 [] c = "ä" -> 228 [] c = "å" -> 229
          [] c = "ö" -> 246]

\* str.lower() of one character.
LowerChar(c) ==
    CASE c = "A" -> "a" [] c = "B" -> "b" [] c = "C" -> "c" [] c = "T" -> "t"
      [] OTHER -> c

\* str.lower()
Lower(word) == [i \in 1..Len(word) |-> LowerChar(word[i])]

RECURSIVE LStrip(_)
LStrip(word) ==
    IF word # <<>> /\ Head(word) = " " THEN LStrip(Tail(word)) ELSE word

RECURSIVE RStrip(_)
RStrip(word) ==
    IF word # <<>> /\ word[Len(word)] = " "
    THEN RStrip(SubSeq(word, 1, Len(word) - 1))
    ELSE word

\* str.strip()
Strip(word) == RStrip(LStrip(word))

\* a < b on Python strings: by code point, a proper prefix first.
RECURSIVE StrLess(_, _)
StrLess(a, b) ==
    IF b = <<>> THEN FALSE
    ELSE IF a = <<>> THEN TRUE
    ELSE IF Head(a) # Head(b) THEN CodePoint[Head(a)] < CodePoint[Head(b)]
    ELSE StrLess(Tail(a), Tail(b))

\* "".join(parts)
RECURSIVE Join(_)
Join(parts) ==
    IF parts = <<>> THEN <<>> ELSE <<Head(parts)>> \o Join(Tail(parts))

\* ------------------------------------------------------------ configuration

\* config["languages"]; the first one is the default language of learn_word.
Languages == <<"en", "sv">>

\* config["punctuation"]: the default list.
PunctList == <<".", ",", "!", "?", "-", "'", "\"", "(", ")", ":", ";", "@", "#">>

\* overlay_cfg.get("max_candidates", 6)
MaxCandidates == 6

\* load_wordlist(lang, wordlist_dir): the words of wordlists/<lang>.txt, in
\* file order, stripped and lowercased, comments and blank lines dropped.
WordFile(lang) ==
    CASE lang = "en" -> << <<"c">>, <<"a">>, <<"b">>, <<"c", "a", "b">>,
                           <<"c", "a", "t">>, <<"d", "o", "g">> >>
      [] lang = "sv" -> << <<"a", "b", "c">>, <<"c", "a", "b">>, <<"b", "å", "t">> >>
      [] OTHER -> << >>

\* --------------------------------------------------------- Python dicts

\* A dict (word -> count) is its items in insertion order: <<word, count>>.
EmptyDict == << >>

DictKeys(d) == [i \in 1..Len(d) |-> d[i][1]]

DictHas(d, w) == \E i \in 1..Len(d) : d[i][1] = w

\* d.get(w, 0)
DictGet(d, w) ==
    IF DictHas(d, w) THEN d[CHOOSE i \in 1..Len(d) : d[i][1] = w][2] ELSE 0

\* d[w] = n: an existing key keeps its position, a new key goes last.
DictSet(d, w, n) ==
    IF DictHas(d, w)
    THEN [i \in 1..Len(d) |-> IF d[i][1] = w THEN <<w, n>> ELSE d[i]]
    ELSE Append(d, <<w, n>>)

\* str(n) of a count, as json.dump writes it: its decimal digits.
RECURSIVE Digits(_)
Digits(n) ==
    LET digit == <<"0", "1", "2", "3", "4", "5", "6", "7", "8", "9">>[(n % 10) + 1]
    IN  IF n < 10 THEN <<digit>> ELSE Digits(n \div 10) \o <<digit>>

\* int(text) of the decimal digits json.load reads.
RECURSIVE Number(_)
Number(text) ==
    IF text = << >> THEN 0
    ELSE 10 * Number(SubSeq(text, 1, Len(text) - 1))
             + (CHOOSE v \in 0..9 : Digits(v) = <<text[Len(text)]>>)

\* json.dump(d, f, ensure_ascii=False): the members of the JSON object, in
\* the dict's order, each its key and the digits of its count.
JsonDump(d) == [i \in 1..Len(d) |-> <<d[i][1], Digits(d[i][2])>>]

\* json.load(f) of such a file.
JsonLoad(text) == [i \in 1..Len(text) |-> <<text[i][1], Number(text[i][2])>>]

\* A mapping with a growing key set (lookup, user_dicts, the files on disk).
EmptyMap == [k \in {} |-> << >>]

MapGet(m, k, default) == IF k \in DOMAIN m THEN m[k] ELSE default

MapSet(m, k, v) == [x \in DOMAIN m \cup {k} |-> IF x = k THEN v ELSE m[x]]

\* ------------------------------------------------------------- indexing

\* T9Engine.word_to_digits: <<>> (Python "") if a character is unmappable.
word_to_digits(word) ==
    LET w == Lower(word) IN
    IF \A i \in 1..Len(w) : w[i] \in DOMAIN CHAR_TO_DIGIT
    THEN [i \in 1..Len(w) |-> CHAR_TO_DIGIT[w[i]]]
    ELSE << >>

\* list.index(x): the 1-based position of the first x.
IndexOf(l, x) == CHOOSE i \in 1..Len(l) : l[i] = x /\ \A j \in 1..(i - 1) : l[j] # x

\* bucket.insert(0, bucket.pop(idx))
MoveToFront(bucket, idx) ==
    <<bucket[idx]>> \o SubSeq(bucket, 1, idx - 1) \o SubSeq(bucket, idx + 1, Len(bucket))

\* A fault C19 detects: a word already in the bucket is added again.
IndexWord_NoDedupe(lookup, word, prepend) ==
    LET key == word_to_digits(word)
        bucket == MapGet(lookup, key, << >>)
    IN  IF key = << >> THEN lookup
        ELSE IF prepend
        THEN MapSet(lookup, key, <<Lower(word)>> \o bucket)
        ELSE MapSet(lookup, key, Append(bucket, Lower(word)))

\* One iteration of the loop of T9Engine._index_words.
IndexWord(lookup, word, prepend) ==
    LET key == word_to_digits(word)
        bucket == MapGet(lookup, key, << >>)
        lower_bucket == [i \in 1..Len(bucket) |-> Lower(bucket[i])]
    IN  IF key = << >> THEN lookup
        ELSE IF Lower(word) \in Range(lower_bucket)
        THEN IF prepend
             THEN MapSet(lookup, key, MoveToFront(bucket, IndexOf(lower_bucket, Lower(word))))
             ELSE MapSet(lookup, key, bucket)
        ELSE IF prepend
        THEN MapSet(lookup, key, <<Lower(word)>> \o bucket)
        ELSE MapSet(lookup, key, Append(bucket, Lower(word)))

\* T9Engine._index_words
RECURSIVE _index_words(_, _, _)
_index_words(lookup, words, prepend) ==
    IF words = << >> THEN lookup
    ELSE _index_words(IndexWord(lookup, Head(words), prepend), Tail(words), prepend)

\* T9Engine._load_all_wordlists: every configured language, in order.
RECURSIVE _load_all_wordlists(_, _)
_load_all_wordlists(lookup, langs) ==
    IF langs = << >> THEN lookup
    ELSE _load_all_wordlists(_index_words(lookup, WordFile(Head(langs)), FALSE), Tail(langs))

\* T9Engine._load_all_user_dicts, the dictionaries: a language with no file
\* (or an unreadable one) gets an empty dictionary.
LoadedUserDicts(files) ==
    [lang \in Range(Languages) |->
        IF lang \in DOMAIN files THEN JsonLoad(files[lang]) ELSE EmptyDict]

\* A fault C16 detects: the personal words are not indexed when loaded.
_load_all_user_dicts_NoIndex(lookup, files, langs) == lookup

\* T9Engine._load_all_user_dicts, the index: the words of every file are
\* indexed with prepend, language by language.
RECURSIVE _load_all_user_dicts(_, _, _)
_load_all_user_dicts(lookup, files, langs) ==
    IF langs = << >> THEN lookup
    ELSE _load_all_user_dicts(
             _index_words(lookup,
                          IF Head(langs) \in DOMAIN files
                          THEN DictKeys(JsonLoad(files[Head(langs)]))
                          ELSE << >>,
                          TRUE),
             files, Tail(langs))

\* --------------------------------------------------------------- engine
\* An engine value e is a record of the fields of T9Engine (sequence,
\* candidates, candidate_index, confirmed_words, lookup, user_dicts) and of
\* the personal-dictionary files it writes (files: language -> dict).

RECURSIVE SumCounts(_, _, _)
SumCounts(user_dicts, langs, word) ==
    IF langs = {} THEN 0
    ELSE LET lang == CHOOSE l \in langs : TRUE
         IN  DictGet(user_dicts[lang], word)
                 + SumCounts(user_dicts, langs \ {lang}, word)

\* A fault C6 detects: only the default language's dictionary is counted.
_user_freq_DefaultOnly(e, word) == DictGet(e.user_dicts["en"], word)

\* T9Engine._user_freq
_user_freq(e, word) == SumCounts(e.user_dicts, DOMAIN e.user_dicts, word)

\* The sort key of _refresh_candidates, (-freq, w), compared as tuples.
KeyLess(e, a, b) ==
    \/ -_user_freq(e, a) < -_user_freq(e, b)
    \/ /\ _user_freq(e, a) = _user_freq(e, b)
       /\ StrLess(a, b)

\* sorted(): a stable insertion of x into an already sorted list.
RECURSIVE InsertSorted(_, _, _)
InsertSorted(e, done, x) ==
    IF done = << >> THEN <<x>>
    ELSE IF KeyLess(e, x, Head(done)) THEN <<x>> \o done
    ELSE <<Head(done)>> \o InsertSorted(e, Tail(done), x)

RECURSIVE SortedByKey(_, _, _)
SortedByKey(e, done, raw) ==
    IF raw = << >> THEN done
    ELSE SortedByKey(e, InsertSorted(e, done, Head(raw)), Tail(raw))

\* T9Engine._refresh_candidates
_refresh_candidates(e) ==
    LET key == Join(e.sequence)
        raw == MapGet(e.lookup, key, << >>)
    IN  [e EXCEPT !.candidates = SortedByKey(e, << >>, raw),
                  !.candidate_index = 0]

\* T9Engine.push_digit
push_digit(e, digit) ==
    _refresh_candidates([e EXCEPT !.sequence = Append(e.sequence, digit)])

\* T9Engine.pop_digit (its result is has_input of the new state)
pop_digit(e) ==
    IF e.sequence # << >>
    THEN _refresh_candidates(
             [e EXCEPT !.sequence = SubSeq(e.sequence, 1, Len(e.sequence) - 1)])
    ELSE e

\* A fault C10 detects: reset leaves the candidate cursor where it was.
reset_KeepsIndex(e) == [e EXCEPT !.sequence = << >>, !.candidates = << >>]

\* T9Engine.reset
reset(e) ==
    [e EXCEPT !.sequence = << >>, !.candidates = << >>, !.candidate_index = 0]

\* A fault C11 detects: cycle_next without the modulo.
cycle_next_NoWrap(e) ==
    IF e.candidates # << >>
    THEN [e EXCEPT !.candidate_index = e.candidate_index + 1]
    ELSE e

\* T9Engine.cycle_next
cycle_next(e) ==
    IF e.candidates # << >>
    THEN [e EXCEPT !.candidate_index = (e.candidate_index + 1) % Len(e.candidates)]
    ELSE e

\* A fault C5 detects: cycle_prev without the modulo.
cycle_prev_NoWrap(e) ==
    IF e.candidates # << >>
    THEN [e EXCEPT !.candidate_index = e.candidate_index - 1]
    ELSE e

\* T9Engine.cycle_prev
cycle_prev(e) ==
    IF e.candidates # << >>
    THEN [e EXCEPT !.candidate_index = (e.candidate_index - 1) % Len(e.candidates)]
    ELSE e

\* A fault C29 detects: the fallback is made of placeholders only.
FirstLetter_Placeholder(d) == "?"

\* T9_MAP.get(d, "?")[0]
FirstLetter(d) == IF d \in DOMAIN T9_MAP THEN T9_MAP[d][1] ELSE "?"

\* T9Engine.current_word
current_word(e) ==
    IF e.candidates # << >>
    THEN e.candidates[e.candidate_index + 1]
    ELSE Join([i \in 1..Len(e.sequence) |-> FirstLetter(e.sequence[i])])

\* T9Engine.has_input
has_input(e) == e.sequence # << >>

\* T9Engine._save_user_dict: user_<lang>.json is rewritten from memory.
_save_user_dict(e, lang) ==
    [e EXCEPT !.files = MapSet(e.files, lang, JsonDump(e.user_dicts[lang]))]

\* config.get("languages", ["en"])[0]
DefaultLang == Languages[1]

\* A fault C20 detects: learning a word forgets the language's other words.
learn_word_Forgets(e, word, lang) ==
    LET w == Lower(Strip(word))
        dicts == IF lang \in DOMAIN e.user_dicts
                 THEN e.user_dicts
                 ELSE MapSet(e.user_dicts, lang, EmptyDict)
        counted == [e EXCEPT !.user_dicts =
                       MapSet(dicts, lang, DictSet(EmptyDict, w, DictGet(dicts[lang], w) + 1))]
        saved == _save_user_dict(counted, lang)
    IN  IF w = << >> THEN e
        ELSE [saved EXCEPT !.lookup = _index_words(saved.lookup, <<w>>, TRUE)]

\* T9Engine.learn_word(word, lang)
learn_word(e, word, lang) ==
    LET w == Lower(Strip(word))
        dicts == IF lang \in DOMAIN e.user_dicts
                 THEN e.user_dicts
                 ELSE MapSet(e.user_dicts, lang, EmptyDict)
        counted == [e EXCEPT !.user_dicts =
                       MapSet(dicts, lang, DictSet(dicts[lang], w, DictGet(dicts[lang], w) + 1))]
        saved == _save_user_dict(counted, lang)
    IN  IF w = << >> THEN e
        ELSE [saved EXCEPT !.lookup = _index_words(saved.lookup, <<w>>, TRUE)]

\* A fault C30 detects: the bump counts the word twice.
bump_word_Twice(e, word) ==
    learn_word(learn_word(e, word, DefaultLang), word, DefaultLang)

\* T9Engine.bump_word
bump_word(e, word) == learn_word(e, word, DefaultLang)

\* A fault C7 detects: confirm without the bump of the word.
confirm_NoBump(e) ==
    reset([e EXCEPT !.confirmed_words = Append(e.confirmed_words, current_word(e))])

\* T9Engine.confirm: the new state; the value returned is current_word(e).
confirm(e) ==
    LET word == current_word(e)
        bumped == bump_word(e, word)
    IN  reset([bumped EXCEPT !.confirmed_words = Append(bumped.confirmed_words, word)])

\* T9Engine.__init__ with no personal-dictionary file on disk.
NewEngine(files) ==
    [sequence |-> << >>,
     candidates |-> << >>,
     candidate_index |-> 0,
     confirmed_words |-> << >>,
     lookup |-> _load_all_user_dicts(_load_all_wordlists(EmptyMap, Languages),
                                     files, Languages),
     user_dicts |-> LoadedUserDicts(files),
     files |-> files]

\* -------------------------------------------------------------- overlay
\* An overlay value o is a record: visible (the window is deiconified),
\* seq_label (the text of the sequence line) and labels (the rows of
\* _candidate_labels, each its text and colours).  "|>" stands for the
\* marker U+25B8 and ">" for the marker U+25B6.

\* "  ".join(sequence)
RECURSIVE JoinSpaced(_)
JoinSpaced(parts) ==
    IF parts = << >> THEN << >>
    ELSE IF Len(parts) = 1 THEN <<Head(parts)>>
    ELSE <<Head(parts), "  ">> \o JoinSpaced(Tail(parts))

\* candidates[:max_shown]
Shown(candidates) ==
    SubSeq(candidates, 1, IF Len(candidates) < MaxCandidates
                          THEN Len(candidates) ELSE MaxCandidates)

NoMatchLabel == [text |-> <<"   (no match)">>, bg |-> "#1a1a2e", fg |-> "#555577"]

CandidateLabel(word, is_sel) ==
    [text |-> <<IF is_sel THEN "> " ELSE "   ">> \o word,
     bg |-> IF is_sel THEN "#e94560" ELSE "#1a1a2e",
     fg |-> IF is_sel THEN "#ffffff" ELSE "#a0a0c0"]

ToastLabel(message) == [text |-> <<"v ">> \o message, bg |-> "#1a1a2e", fg |-> "#50fa7b"]

\* OverlayWindow.hide
hide(o) == [o EXCEPT !.visible = FALSE]

\* OverlayWindow.update
update(o, sequence, candidates, selected_idx) ==
    LET shown == Shown(candidates) IN
    IF sequence = << >> THEN hide(o)
    ELSE [visible |-> TRUE,
          seq_label |-> JoinSpaced(sequence) \o <<"  ", "|>">>,
          labels |-> IF shown = << >>
                     THEN <<NoMatchLabel>>
                     ELSE [i \in 1..Len(shown) |->
                              CandidateLabel(shown[i], i - 1 = selected_idx)]]

\* OverlayWindow.show_toast, the window; the timer it arms is in ShowToast.
show_toast(o, message) ==
    [visible |-> TRUE, seq_label |-> << >>, labels |-> <<ToastLabel(message)>>]

\* OverlayWindow.__init__ / _build: withdrawn, empty.
NewOverlay == [visible |-> FALSE, seq_label |-> << >>, labels |-> << >>]

\* ---------------------------------------------------------------- state

VARIABLES
    sequence,         \* T9Engine.sequence
    candidates,       \* T9Engine.candidates
    candidate_index,  \* T9Engine.candidate_index
    confirmed_words,  \* T9Engine.confirmed_words
    lookup,           \* T9Engine.lookup
    user_dicts,       \* T9Engine.user_dicts
    files,            \* the user_<lang>.json files on disk
    punct_index,      \* T9App.punct_index
    visible,          \* the overlay window is shown (deiconify / withdraw)
    seq_label,        \* OverlayWindow.seq_label's text
    labels,           \* OverlayWindow._candidate_labels
    timers,           \* pending root.after(duration_ms, self.hide) callbacks
    out,              \* what the last step sent to the keyboard Controller
    act,              \* the last step: the action handled or the call made
    ret,              \* the value the last engine call returned
    os_queue,         \* key events the OS has yet to hand to the Listener
    _injecting,       \* T9App._injecting: ids of the keys re-injected
    after_queue,      \* root.after(0, self._handle, action) callbacks pending
    fg,               \* kb.press / kb.release calls made so far, in order
    phys,             \* the physical key events so far, in order
    _stop,            \* T9App._stop
    root,             \* the Tk root: "alive" or "destroyed"
    poll,             \* root.after(200, self._poll_signals) is pending
    pc,               \* the position of T9App.run
    listener,         \* the Listener thread: "created", "running", "stopped"
    args              \* the arguments of a call of a module-level function

engineVars == <<sequence, candidates, candidate_index, confirmed_words,
                lookup, user_dicts, files>>
overlayVars == <<visible, seq_label, labels, timers>>
hookVars == <<os_queue, _injecting, after_queue, fg, phys>>
runVars == <<_stop, root, poll, pc, listener>>
appVars == <<os_queue, _injecting, after_queue, fg, phys, _stop, root, poll,
             pc, listener, args>>
vars == <<sequence, candidates, candidate_index, confirmed_words, lookup,
          user_dicts, files, punct_index, visible, seq_label, labels, timers,
          out, act, ret, os_queue, _injecting, after_queue, fg, phys, _stop,
          root, poll, pc, listener, args>>

\* self.engine, as an engine value.
Engine ==
    [sequence |-> sequence, candidates |-> candidates,
     candidate_index |-> candidate_index, confirmed_words |-> confirmed_words,
     lookup |-> lookup, user_dicts |-> user_dicts, files |-> files]

\* The engine becomes e.
SetEngine(e) ==
    /\ sequence' = e.sequence
    /\ candidates' = e.candidates
    /\ candidate_index' = e.candidate_index
    /\ confirmed_words' = e.confirmed_words
    /\ lookup' = e.lookup
    /\ user_dicts' = e.user_dicts
    /\ files' = e.files

\* self.overlay, as an overlay value.
Overlay == [visible |-> visible, seq_label |-> seq_label, labels |-> labels]

\* The overlay window becomes o.
SetOverlay(o) ==
    /\ visible' = o.visible
    /\ seq_label' = o.seq_label
    /\ labels' = o.labels

\* T9App._refresh after the engine became e.
_refresh(e) == SetOverlay(update(Overlay, e.sequence, e.candidates, e.candidate_index))

\* kb.type(text) and kb.tap(key), as the request made of the Controller.
Type(text) == [op |-> "type", text |-> text]
Tap(key) == [op |-> "tap", key |-> key]

\* The sum of all personal-dictionary counts: what MaxLearn bounds.
RECURSIVE DictTotal(_)
DictTotal(d) == IF d = << >> THEN 0 ELSE Head(d)[2] + DictTotal(Tail(d))

RECURSIVE LearnTotal(_, _)
LearnTotal(dicts, langs) ==
    IF langs = {} THEN 0
    ELSE LET lang == CHOOSE l \in langs : TRUE
         IN  DictTotal(dicts[lang]) + LearnTotal(dicts, langs \ {lang})

\* A bounds value b gives the caps of one specification: seq (the length of
\* the sequence), learn (the total of the counts) and punct (the cursor).
CanLearn(b, n) == LearnTotal(user_dicts, DOMAIN user_dicts) + n <= b.learn

\* The letter digits that are pressed.
LetterDigits == {"8"}

\* T9App.__init__: a new engine and a withdrawn overlay.
Init ==
    /\ LET e == NewEngine(EmptyMap)
       IN  /\ sequence = e.sequence
           /\ candidates = e.candidates
           /\ candidate_index = e.candidate_index
           /\ confirmed_words = e.confirmed_words
           /\ lookup = e.lookup
           /\ user_dicts = e.user_dicts
           /\ files = e.files
    /\ punct_index = 0
    /\ visible = NewOverlay.visible
    /\ seq_label = NewOverlay.seq_label
    /\ labels = NewOverlay.labels
    /\ timers = 0
    /\ out = << >>
    /\ act = "init"
    /\ ret = << >>
    /\ os_queue = << >>
    /\ _injecting = {}
    /\ after_queue = << >>
    /\ fg = << >>
    /\ phys = << >>
    /\ _stop = FALSE
    /\ root = "alive"
    /\ poll = FALSE
    /\ pc = "constructed"
    /\ listener = "created"
    /\ args = << >>

\* ------------------------------------------------- T9App._handle(action)

\* _handle runs as the callback of root.after(0, self._handle, action): the
\* loop takes the call it runs off its queue.  Called with nothing queued
\* the queue stays empty.  A handler touches nothing else of the Listener
\* and of run.
HandlerFrame ==
    /\ after_queue' = IF after_queue = << >> THEN after_queue ELSE Tail(after_queue)
    /\ UNCHANGED <<os_queue, _injecting, fg, phys, runVars, args>>

\* action in "123456789", action # "7": e.push_digit(action); _refresh()
HandleDigit(b, d) ==
    /\ Len(sequence) < b.seq
    /\ LET e == push_digit(Engine, d)
       IN  /\ SetEngine(e)
           /\ _refresh(e)
    /\ out' = << >>
    /\ act' = d
    /\ HandlerFrame
    /\ UNCHANGED <<punct_index, timers, ret>>

\* A fault C8 detects: the cursor is not advanced.
HandleSeven_NoAdvance(b) ==
    /\ punct_index < b.punct
    /\ has_input(Engine) => CanLearn(b, 1)
    /\ LET punct == PunctList[(punct_index % Len(PunctList)) + 1]
       IN  IF has_input(Engine)
           THEN /\ SetEngine(confirm(Engine))
                /\ SetOverlay(hide(Overlay))
                /\ out' = <<Type(current_word(Engine)), Type(<<punct>>)>>
           ELSE /\ UNCHANGED engineVars
                /\ UNCHANGED <<visible, seq_label, labels>>
                /\ out' = <<Type(<<punct>>)>>
    /\ act' = "7"
    /\ HandlerFrame
    /\ UNCHANGED <<punct_index, timers, ret>>

\* action == "7": confirm a composition, then the next punctuation entry.
HandleSeven(b) ==
    /\ punct_index < b.punct
    /\ has_input(Engine) => CanLearn(b, 1)
    /\ LET punct == PunctList[(punct_index % Len(PunctList)) + 1]
       IN  IF has_input(Engine)
           THEN /\ SetEngine(confirm(Engine))
                /\ SetOverlay(hide(Overlay))
                /\ out' = <<Type(current_word(Engine)), Type(<<punct>>)>>
           ELSE /\ UNCHANGED engineVars
                /\ UNCHANGED <<visible, seq_label, labels>>
                /\ out' = <<Type(<<punct>>)>>
    /\ punct_index' = punct_index + 1
    /\ act' = "7"
    /\ HandlerFrame
    /\ UNCHANGED <<timers, ret>>

\* action == "0"
HandleZero(b) ==
    /\ has_input(Engine) => CanLearn(b, 1)
    /\ IF has_input(Engine)
       THEN /\ SetEngine(confirm(Engine))
            /\ out' = <<Type(current_word(Engine) \o <<" ">>)>>
       ELSE /\ UNCHANGED engineVars
            /\ out' = <<Tap("space")>>
    /\ SetOverlay(hide(Overlay))
    /\ act' = "0"
    /\ HandlerFrame
    /\ UNCHANGED <<punct_index, timers, ret>>

\* action == "next"
HandleNext ==
    /\ IF has_input(Engine)
       THEN LET e == cycle_next(Engine)
            IN  SetEngine(e) /\ _refresh(e)
       ELSE UNCHANGED engineVars /\ UNCHANGED <<visible, seq_label, labels>>
    /\ out' = << >>
    /\ act' = "next"
    /\ HandlerFrame
    /\ UNCHANGED <<punct_index, timers, ret>>

\* action == "prev"
HandlePrev ==
    /\ IF has_input(Engine)
       THEN LET e == cycle_prev(Engine)
            IN  SetEngine(e) /\ _refresh(e)
       ELSE UNCHANGED engineVars /\ UNCHANGED <<visible, seq_label, labels>>
    /\ out' = << >>
    /\ act' = "prev"
    /\ HandlerFrame
    /\ UNCHANGED <<punct_index, timers, ret>>

\* action == "confirm"
HandleConfirm(b) ==
    /\ has_input(Engine) => CanLearn(b, 1)
    /\ IF has_input(Engine)
       THEN /\ SetEngine(confirm(Engine))
            /\ out' = <<Type(current_word(Engine))>>
            /\ SetOverlay(hide(Overlay))
       ELSE /\ UNCHANGED engineVars
            /\ out' = << >>
            /\ UNCHANGED <<visible, seq_label, labels>>
    /\ act' = "confirm"
    /\ HandlerFrame
    /\ UNCHANGED <<punct_index, timers, ret>>

\* A fault C9 detects: the word is typed with the trailing space of "0".
HandlePunctConfirm_TrailingSpace(b) ==
    /\ has_input(Engine) => CanLearn(b, 2)
    /\ IF has_input(Engine)
       THEN LET word == current_word(Engine)
            IN  /\ SetEngine(confirm(learn_word(Engine, word, DefaultLang)))
                /\ out' = <<Type(word \o <<" ">>)>>
                /\ SetOverlay(show_toast(Overlay, <<"Learned: ">> \o word))
                /\ timers' = timers + 1
       ELSE /\ UNCHANGED engineVars
            /\ out' = <<Type(<<".">>)>>
            /\ UNCHANGED <<visible, seq_label, labels, timers>>
    /\ act' = "punct_confirm"
    /\ HandlerFrame
    /\ UNCHANGED <<punct_index, ret>>

\* action == "punct_confirm"; show_toast arms root.after(duration_ms, hide).
HandlePunctConfirm(b) ==
    /\ has_input(Engine) => CanLearn(b, 2)
    /\ IF has_input(Engine)
       THEN LET word == current_word(Engine)
            IN  /\ SetEngine(confirm(learn_word(Engine, word, DefaultLang)))
                /\ out' = <<Type(word)>>
                /\ SetOverlay(show_toast(Overlay, <<"Learned: ">> \o word))
                /\ timers' = timers + 1
       ELSE /\ UNCHANGED engineVars
            /\ out' = <<Type(<<".">>)>>
            /\ UNCHANGED <<visible, seq_label, labels, timers>>
    /\ act' = "punct_confirm"
    /\ HandlerFrame
    /\ UNCHANGED <<punct_index, ret>>

\* action == "backspace"
HandleBackspace ==
    /\ IF has_input(Engine)
       THEN LET e == pop_digit(Engine)
            IN  /\ SetEngine(e)
                /\ IF has_input(e) THEN _refresh(e) ELSE SetOverlay(hide(Overlay))
                /\ out' = << >>
       ELSE /\ UNCHANGED engineVars
            /\ UNCHANGED <<visible, seq_label, labels>>
            /\ out' = <<Tap("backspace")>>
    /\ act' = "backspace"
    /\ HandlerFrame
    /\ UNCHANGED <<punct_index, timers, ret>>

\* A fault C4 detects: one backspace too few, the space is left behind.
Backspaces_OneShort(n) == [i \in 1..(n - 1) |-> Tap("backspace")]

\* for _ in range(len(last) + 1): self._tap(Key.backspace)
Backspaces(n) == [i \in 1..n |-> Tap("backspace")]

\* action == "delete_word"
HandleDeleteWord ==
    /\ IF confirmed_words # << >>
       THEN LET last == confirmed_words[Len(confirmed_words)]
            IN  /\ confirmed_words' = SubSeq(confirmed_words, 1, Len(confirmed_words) - 1)
                /\ out' = Backspaces(Len(last) + 1)
       ELSE /\ UNCHANGED confirmed_words
            /\ out' = IF ~has_input(Engine) THEN <<Tap("backspace")>> ELSE << >>
    /\ act' = "delete_word"
    /\ HandlerFrame
    /\ UNCHANGED <<sequence, candidates, candidate_index, lookup, user_dicts, files,
                   punct_index, visible, seq_label, labels, timers, ret>>

\* action == "cancel"
HandleCancel ==
    /\ SetEngine(reset(Engine))
    /\ SetOverlay(hide(Overlay))
    /\ out' = << >>
    /\ act' = "cancel"
    /\ HandlerFrame
    /\ UNCHANGED <<punct_index, timers, ret>>

\* The callback armed by show_toast runs: OverlayWindow.hide.
ToastExpires ==
    /\ timers > 0
    /\ timers' = timers - 1
    /\ SetOverlay(hide(Overlay))
    /\ out' = << >>
    /\ act' = "toast_expires"
    /\ UNCHANGED appVars
    /\ UNCHANGED <<engineVars, punct_index, ret>>

\* Every action T9App._handle takes, and the toast timer.
Next(b) ==
    \/ \E d \in LetterDigits : HandleDigit(b, d)
    \/ HandleSeven(b)
    \/ HandleZero(b)
    \/ HandleNext
    \/ HandlePrev
    \/ HandleConfirm(b)
    \/ HandlePunctConfirm(b)
    \/ HandleBackspace
    \/ HandleDeleteWord
    \/ HandleCancel
    \/ ToastExpires

SpecBounds == [seq |-> MaxSeq, learn |-> MaxLearn, punct |-> MaxPunct]

\* The controller, driven by every action.
Spec == Init /\ [][Next(SpecBounds)]_vars

CursorBounds == [seq |-> CursorMaxSeq, learn |-> MaxLearn, punct |-> MaxCursor]

\* The controller with short compositions and a far-driven punctuation cursor.
CursorSpec == Init /\ [][Next(CursorBounds)]_vars

\* ------------------------------------------- the engine used on its own
\* T9Engine is importable and usable standalone: its public methods are
\* called directly, in any order, with no controller and no overlay.

\* The digits pushed.
EngineDigits == {"8"}

\* The words learned: one to lowercase, one to strip, one that is blank.
LearnInputs == { <<"C">>, <<"b", " ">>, <<" ">> }

EngineFrame ==
    UNCHANGED <<punct_index, visible, seq_label, labels, timers, out, appVars>>

CallPushDigit(b, d) ==
    /\ Len(sequence) < b.seq
    /\ SetEngine(push_digit(Engine, d))
    /\ act' = "push_digit"
    /\ ret' = "None"
    /\ EngineFrame

CallPopDigit ==
    /\ SetEngine(pop_digit(Engine))
    /\ act' = "pop_digit"
    /\ ret' = has_input(pop_digit(Engine))
    /\ EngineFrame

CallReset ==
    /\ SetEngine(reset(Engine))
    /\ act' = "reset"
    /\ ret' = "None"
    /\ EngineFrame

CallCycleNext ==
    /\ SetEngine(cycle_next(Engine))
    /\ act' = "cycle_next"
    /\ ret' = "None"
    /\ EngineFrame

CallCyclePrev ==
    /\ SetEngine(cycle_prev(Engine))
    /\ act' = "cycle_prev"
    /\ ret' = "None"
    /\ EngineFrame

CallLearnWord(b, word, lang) ==
    /\ CanLearn(b, 1)
    /\ SetEngine(learn_word(Engine, word, lang))
    /\ act' = "learn_word"
    /\ ret' = "None"
    /\ EngineFrame

CallBumpWord(b, word) ==
    /\ CanLearn(b, 1)
    /\ SetEngine(bump_word(Engine, word))
    /\ act' = "bump_word"
    /\ ret' = "None"
    /\ EngineFrame

CallConfirm(b) ==
    /\ CanLearn(b, 1)
    /\ Len(confirmed_words) < b.learn
    /\ SetEngine(confirm(Engine))
    /\ act' = "confirm"
    /\ ret' = current_word(Engine)
    /\ EngineFrame

EngineNext(b) ==
    \/ \E d \in EngineDigits : CallPushDigit(b, d)
    \/ CallPopDigit
    \/ CallReset
    \/ CallCycleNext
    \/ CallCyclePrev
    \/ \E word \in LearnInputs, lang \in Range(Languages) : CallLearnWord(b, word, lang)
    \/ \E word \in LearnInputs : CallBumpWord(b, word)
    \/ CallConfirm(b)

\* The engine, driven by direct calls of its methods.
EngineSpec == Init /\ [][EngineNext(SpecBounds)]_vars

\* The process is started again: T9Engine.__init__ reads the word lists
\* and the personal-dictionary files there are now.
CallNewEngine ==
    /\ SetEngine(NewEngine(files))
    /\ act' = "new_engine"
    /\ ret' = "None"
    /\ EngineFrame

ReloadNext(b) ==
    \/ EngineNext(b)
    \/ CallNewEngine

\* The engine, driven by direct calls and constructed again at any time.
ReloadSpec == Init /\ [][ReloadNext(SpecBounds)]_vars

\* The largest total of personal counts, and the most entries of a file,
\* under StartupSpec.
StartupMaxLearn == 1

\* The entries written into personal-dictionary files by hand.
EditedWords == { <<"C">>, <<"C", "a", "b">> }

\* user_<lang>.json is edited between two runs: an entry with count 1 is
\* added to the JSON object.
EditUserDict(b, lang, word) ==
    /\ LET text == MapGet(files, lang, << >>)
       IN  /\ Len(text) < b.learn
           /\ \A i \in 1..Len(text) : text[i][1] # word
           /\ files' = MapSet(files, lang, Append(text, <<word, <<"1">>>>))
    /\ act' = "edit_file"
    /\ ret' = "None"
    /\ UNCHANGED <<sequence, candidates, candidate_index, confirmed_words,
                   lookup, user_dicts>>
    /\ EngineFrame

\* Short compositions and few entries: the index is what is looked at.
StartupBounds == [seq |-> CursorMaxSeq, learn |-> StartupMaxLearn, punct |-> MaxPunct]

StartupNext(b) ==
    \/ ReloadNext(b)
    \/ \E lang \in Range(Languages), word \in EditedWords : EditUserDict(b, lang, word)

\* The engine, constructed again at any time from files that may have been
\* edited by hand.
StartupSpec == Init /\ [][StartupNext(StartupBounds)]_vars

\* ------------------------------------------- saving when the disk fails
\* What a save meets: "ok"; "open_fails" (open(path, "w") raises inside the
\* try, the file stays as it was); "mkdir_fails" (user_dict_dir.mkdir raises
\* before the try).  A result r is the engine value e reached and raised:
\* an exception left the method.
SaveOutcomes == {"ok", "open_fails", "mkdir_fails"}

\* T9Engine._save_user_dict meeting io.
_save_user_dict_io(e, lang, io) ==
    CASE io = "ok" -> [e |-> _save_user_dict(e, lang), raised |-> FALSE]
      [] io = "open_fails" -> [e |-> e, raised |-> FALSE]
      [] io = "mkdir_fails" -> [e |-> e, raised |-> TRUE]

\* T9Engine.learn_word(word, lang) with its save meeting io.
learn_word_io(e, word, lang, io) ==
    LET w == Lower(Strip(word))
        dicts == IF lang \in DOMAIN e.user_dicts
                 THEN e.user_dicts
                 ELSE MapSet(e.user_dicts, lang, EmptyDict)
        counted == [e EXCEPT !.user_dicts =
                       MapSet(dicts, lang, DictSet(dicts[lang], w, DictGet(dicts[lang], w) + 1))]
        saved == _save_user_dict_io(counted, lang, io)
    IN  IF w = << >> THEN [e |-> e, raised |-> FALSE]
        ELSE IF saved.raised THEN saved
        ELSE [e |-> [saved.e EXCEPT !.lookup = _index_words(saved.e.lookup, <<w>>, TRUE)],
              raised |-> FALSE]

\* T9Engine.confirm with its save meeting io.
confirm_io(e, io) ==
    LET word == current_word(e)
        bumped == learn_word_io(e, word, DefaultLang, io)
    IN  IF bumped.raised THEN bumped
        ELSE [e |-> reset([bumped.e EXCEPT !.confirmed_words =
                              Append(bumped.e.confirmed_words, word)]),
              raised |-> FALSE]

\* T9Engine.learn_word(word) called with the save meeting io.
CallLearnWordIo(b, word, io) ==
    /\ CanLearn(b, 1)
    /\ SetEngine(learn_word_io(Engine, word, DefaultLang, io).e)
    /\ act' = "learn_word"
    /\ ret' = IF learn_word_io(Engine, word, DefaultLang, io).raised THEN "raised" ELSE "None"
    /\ args' = [word |-> word, io |-> io]
    /\ UNCHANGED <<punct_index, visible, seq_label, labels, timers, out, hookVars, runVars>>

\* action == "confirm" with the save meeting io: an exception leaves
\* _handle before _type and overlay.hide.
HandleConfirmIo(b, io) ==
    /\ has_input(Engine) => CanLearn(b, 1)
    /\ IF has_input(Engine)
       THEN LET r == confirm_io(Engine, io)
            IN  /\ SetEngine(r.e)
                /\ IF r.raised
                   THEN /\ out' = << >>
                        /\ UNCHANGED <<visible, seq_label, labels>>
                   ELSE /\ out' = <<Type(current_word(Engine))>>
                        /\ SetOverlay(hide(Overlay))
       ELSE /\ UNCHANGED engineVars
            /\ out' = << >>
            /\ UNCHANGED <<visible, seq_label, labels>>
    /\ act' = "confirm"
    /\ args' = [word |-> << >>, io |-> io]
    /\ UNCHANGED <<punct_index, timers, ret, hookVars, runVars>>

\* action == "punct_confirm" with the saves of learn_word and of confirm
\* meeting io: an exception in learn_word leaves _handle at once.
HandlePunctConfirmIo(b, io) ==
    /\ has_input(Engine) => CanLearn(b, 2)
    /\ IF has_input(Engine)
       THEN LET word == current_word(Engine)
                learned == learn_word_io(Engine, word, DefaultLang, io)
                r == IF learned.raised THEN learned ELSE confirm_io(learned.e, io)
            IN  /\ SetEngine(r.e)
                /\ IF r.raised
                   THEN /\ out' = << >>
                        /\ UNCHANGED <<visible, seq_label, labels, timers>>
                   ELSE /\ out' = <<Type(word)>>
                        /\ SetOverlay(show_toast(Overlay, <<"Learned: ">> \o word))
                        /\ timers' = timers + 1
       ELSE /\ UNCHANGED engineVars
            /\ out' = <<Type(<<".">>)>>
            /\ UNCHANGED <<visible, seq_label, labels, timers>>
    /\ act' = "punct_confirm"
    /\ args' = [word |-> << >>, io |-> io]
    /\ UNCHANGED <<punct_index, ret, hookVars, runVars>>

FaultNext(b) ==
    \/ \E d \in LetterDigits : HandleDigit(b, d)
    \/ HandleNext
    \/ HandleBackspace
    \/ HandleCancel
    \/ ToastExpires
    \/ \E io \in SaveOutcomes : HandleConfirmIo(b, io)
    \/ \E io \in SaveOutcomes : HandlePunctConfirmIo(b, io)
    \/ \E word \in LearnInputs, io \in SaveOutcomes : CallLearnWordIo(b, word, io)

\* The controller and learn_word with every save free to fail.
FaultSpec == Init /\ [][FaultNext(SpecBounds)]_vars

\* ------------------------------------------------ the keyboard Listener
\* A key is a member of pynput's Key enum (cls "Key", a name) or a KeyCode
\* (cls "KeyCode", its vk: <<n>>, or << >> for None).

Key(name) == [cls |-> "Key", name |-> name, vk |-> << >>]

KeyCode(vk) == [cls |-> "KeyCode", name |-> "", vk |-> vk]

\* vk_map of T9App._key_to_action
vk_map ==
    [vk \in (96..107) \cup {109, 110, 111, 13} |->
        CASE vk = 96 -> "0" [] vk = 97 -> "1" [] vk = 98 -> "2" [] vk = 99 -> "3"
          [] vk = 100 -> "4" [] vk = 101 -> "5" [] vk = 102 -> "6"
          [] vk = 103 -> "7" [] vk = 104 -> "8" [] vk = 105 -> "9"
          [] vk = 106 -> "backspace" [] vk = 107 -> "next" [] vk = 109 -> "prev"
          [] vk = 110 -> "punct_confirm" [] vk = 111 -> "delete_word"
          [] vk = 13 -> "confirm"]

\* named of T9App._key_to_action
named ==
    [name \in {"insert", "end", "down", "page_down", "left", "right", "home",
               "up", "page_up", "delete"} |->
        CASE name = "insert" -> "0" [] name = "end" -> "1" [] name = "down" -> "2"
          [] name = "page_down" -> "3" [] name = "left" -> "4"
          [] name = "right" -> "6" [] name = "home" -> "7" [] name = "up" -> "8"
          [] name = "page_up" -> "9" [] name = "delete" -> "punct_confirm"]

\* T9App._key_to_action; "None" is Python's None.
_key_to_action(key) ==
    IF key = Key("num_lock") THEN "None"
    ELSE IF key.cls = "KeyCode"
    THEN IF key.vk # << >>
         THEN IF key.vk[1] \in DOMAIN vk_map THEN vk_map[key.vk[1]] ELSE "None"
         ELSE "None"
    ELSE IF key.name \in DOMAIN named THEN named[key.name]
    ELSE IF key = Key("esc") THEN "cancel"
    ELSE IF key = Key("enter") THEN "confirm"
    ELSE "None"

\* id(key) of the object handed to a callback.  A member of Key is one
\* object for the life of the process; a KeyCode is built anew for every
\* event, at an address that an earlier, freed KeyCode may have had.
IdsOf(key) == IF key.cls = "Key" THEN {key.name} ELSE {"obj1", "obj2"}

\* The longest record of kb.press / kb.release calls that is followed.
MaxEmit == 3

\* The number of physical key events under HookSpec and under KeySpec.
MaxKeyEvents == 3
MaxClassified == 1

\* The keys struck under HookSpec: a modifier, a letter and numpad 8.
HookKeys == {Key("shift"), KeyCode(<<65>>), KeyCode(<<104>>)}

\* The keys classified under KeySpec.
AllKeys ==
    {KeyCode(<<vk>>) : vk \in (95..112) \cup {13, 65}} \cup {KeyCode(<< >>)}
        \cup {Key(name) : name \in
                 {"num_lock", "insert", "end", "down", "page_down", "left",
                  "right", "home", "up", "page_up", "delete", "esc", "enter",
                  "shift", "tab", "space"}}

KeyEvent(key, kind, origin) == [key |-> key, kind |-> kind, origin |-> origin]

\* The number of events of this key and kind among the physical events.
PhysCount(key, kind) ==
    Cardinality({i \in 1..Len(phys) : phys[i].key = key /\ phys[i].kind = kind})

\* The key is down: pressed and not yet released, or held since before the
\* Listener was started.
IsDown(key) ==
    \/ PhysCount(key, "press") > PhysCount(key, "release")
    \/ PhysCount(key, "press") + PhysCount(key, "release") = 0

HookFrame ==
    UNCHANGED <<engineVars, overlayVars, punct_index, runVars, args>>

\* The user presses or releases a key: the OS queues the event for the
\* Listener (suppress=True: it goes nowhere else).
PhysicalEvent(key, kind, n) ==
    /\ listener = "running"
    /\ Len(phys) < n
    /\ kind = "press" => PhysCount(key, "press") <= PhysCount(key, "release")
    /\ kind = "release" => IsDown(key)
    /\ os_queue' = Append(os_queue, KeyEvent(key, kind, "physical"))
    /\ phys' = Append(phys, KeyEvent(key, kind, "physical"))
    /\ out' = << >>
    /\ act' = "physical"
    /\ UNCHANGED <<_injecting, after_queue, fg, ret>>
    /\ HookFrame

\* T9App._on_press for the next queued event; kb.press(key) queues the
\* injected event behind the events already pending.
_on_press(key_id) ==
    /\ listener = "running"
    /\ os_queue # << >>
    /\ Head(os_queue).kind = "press"
    /\ key_id \in IdsOf(Head(os_queue).key)
    /\ LET key == Head(os_queue).key
           action == _key_to_action(key)
       IN  IF key_id \in _injecting
           THEN /\ _injecting' = _injecting \ {key_id}
                /\ os_queue' = Tail(os_queue)
                /\ out' = << >>
                /\ ret' = "skipped"
                /\ UNCHANGED <<after_queue, fg>>
           ELSE IF action # "None"
           THEN /\ after_queue' = Append(after_queue, action)
                /\ os_queue' = Tail(os_queue)
                /\ out' = << >>
                /\ ret' = action
                /\ UNCHANGED <<_injecting, fg>>
           ELSE /\ Len(fg) < MaxEmit
                /\ _injecting' = _injecting \cup {key_id}
                /\ os_queue' = Append(Tail(os_queue), KeyEvent(key, "press", "injected"))
                /\ fg' = Append(fg, [op |-> "press", key |-> key])
                /\ out' = <<[op |-> "press", key |-> key]>>
                /\ ret' = action
                /\ UNCHANGED after_queue
    /\ act' = "on_press"
    /\ UNCHANGED phys
    /\ HookFrame

\* T9App._on_release for the next queued event.
_on_release(key_id) ==
    /\ listener = "running"
    /\ os_queue # << >>
    /\ Head(os_queue).kind = "release"
    /\ key_id \in IdsOf(Head(os_queue).key)
    /\ LET key == Head(os_queue).key
           action == _key_to_action(key)
       IN  IF key_id \in _injecting
           THEN /\ _injecting' = _injecting \ {key_id}
                /\ os_queue' = Tail(os_queue)
                /\ out' = << >>
                /\ ret' = "skipped"
                /\ UNCHANGED fg
           ELSE IF action # "None"
           THEN /\ os_queue' = Tail(os_queue)
                /\ out' = << >>
                /\ ret' = action
                /\ UNCHANGED <<_injecting, fg>>
           ELSE /\ Len(fg) < MaxEmit
                /\ _injecting' = _injecting \cup {key_id}
                /\ os_queue' = Append(Tail(os_queue), KeyEvent(key, "release", "injected"))
                /\ fg' = Append(fg, [op |-> "release", key |-> key])
                /\ out' = <<[op |-> "release", key |-> key]>>
                /\ ret' = action
    /\ act' = "on_release"
    /\ UNCHANGED <<after_queue, phys>>
    /\ HookFrame

\* T9App.run up to root.mainloop(): the flag is cleared, the Listener is
\* started and the first poll is armed.
RunStart ==
    /\ pc = "constructed"
    /\ _stop' = FALSE
    /\ listener' = "running"
    /\ poll' = TRUE
    /\ pc' = "mainloop"
    /\ out' = << >>
    /\ act' = "run"
    /\ UNCHANGED <<engineVars, overlayVars, punct_index, hookVars, root, args, ret>>

\* The Listener thread, fed the physical events of the keys in keys.
HookNext(keys, n) ==
    \/ RunStart
    \/ \E key \in keys, kind \in {"press", "release"} : PhysicalEvent(key, kind, n)
    \/ \E key_id \in {"shift", "obj1", "obj2"} \cup {k.name : k \in keys} : _on_press(key_id)
    \/ \E key_id \in {"shift", "obj1", "obj2"} \cup {k.name : k \in keys} : _on_release(key_id)

\* The Listener with a few keys and several events in flight.
HookSpec == Init /\ [][HookNext(HookKeys, MaxKeyEvents)]_vars

\* The Listener with every kind of key, one event at a time.
KeySpec == Init /\ [][HookNext(AllKeys, MaxClassified)]_vars

\* ------------------------------------------------------------ T9App.run
\* The Tk event loop runs the timer and the deferred handler calls while
\* run is inside root.mainloop() and the root exists.

\* The largest total of personal counts under RunSpec.
RunMaxLearn == 1

RunBounds == [seq |-> CursorMaxSeq, learn |-> RunMaxLearn, punct |-> MaxPunct]

RunFrame ==
    UNCHANGED <<engineVars, overlayVars, punct_index, hookVars, args, ret>>

\* _sigint_handler: the interrupt arrives while the loop runs.
_sigint_handler ==
    /\ pc = "mainloop"
    /\ _stop' = TRUE
    /\ out' = << >>
    /\ act' = "sigint"
    /\ UNCHANGED <<root, poll, pc, listener>>
    /\ RunFrame

\* T9App.stop
stop ==
    /\ pc = "mainloop"
    /\ _stop' = TRUE
    /\ out' = << >>
    /\ act' = "stop"
    /\ UNCHANGED <<root, poll, pc, listener>>
    /\ RunFrame

\* A fault C14 detects: the poll does not re-arm itself.
_poll_signals_NoRearm ==
    /\ pc = "mainloop"
    /\ root = "alive"
    /\ poll
    /\ poll' = FALSE
    /\ root' = IF _stop THEN "destroyed" ELSE root
    /\ out' = << >>
    /\ act' = "poll"
    /\ UNCHANGED <<_stop, pc, listener>>
    /\ RunFrame

\* T9App._poll_signals, run by the loop when its timer is due.
_poll_signals ==
    /\ pc = "mainloop"
    /\ root = "alive"
    /\ poll
    /\ IF _stop
       THEN root' = "destroyed" /\ poll' = FALSE
       ELSE root' = root /\ poll' = TRUE
    /\ out' = << >>
    /\ act' = "poll"
    /\ UNCHANGED <<_stop, pc, listener>>
    /\ RunFrame

\* root.mainloop() returns once the root is destroyed.
MainloopReturns ==
    /\ pc = "mainloop"
    /\ root = "destroyed"
    /\ pc' = "stopping"
    /\ out' = << >>
    /\ act' = "mainloop_returns"
    /\ UNCHANGED <<_stop, root, poll, listener>>
    /\ RunFrame

\* self._listener.stop() and the closing message.
ListenerStop ==
    /\ pc = "stopping"
    /\ listener' = "stopped"
    /\ pc' = "done"
    /\ out' = << >>
    /\ act' = "listener_stop"
    /\ UNCHANGED <<_stop, root, poll>>
    /\ RunFrame

\* The loop runs a handler call or the toast timer.
LoopRuns(b) ==
    /\ pc = "mainloop"
    /\ root = "alive"
    /\ Next(b)

RunNext ==
    \/ RunStart
    \/ _sigint_handler
    \/ stop
    \/ _poll_signals
    \/ MainloopReturns
    \/ ListenerStop
    \/ LoopRuns(RunBounds)

\* run() from start to end; the loop runs a due timer, and run goes on
\* when mainloop returns.
RunSpec ==
    /\ Init
    /\ [][RunNext]_vars
    /\ WF_vars(_poll_signals)
    /\ WF_vars(MainloopReturns)
    /\ WF_vars(ListenerStop)

\* ------------------------------------------- the two threads together
\* The Listener thread classifies and forwards; the loop thread runs the
\* handler calls the Listener has queued with root.after(0, ...), oldest
\* first, whenever it gets to them.

\* The keys struck: numpad 7 (an action that types) and the letter A.
OrderKeys == {KeyCode(<<103>>), KeyCode(<<65>>)}

\* The loop runs the oldest queued call: T9App._handle(action).
LoopDequeues(b) ==
    /\ pc = "mainloop"
    /\ root = "alive"
    /\ after_queue # << >>
    /\ Next(b)
    /\ act' = Head(after_queue)

OrderNext ==
    \/ HookNext(OrderKeys, MaxKeyEvents)
    \/ LoopDequeues(RunBounds)

OrderSpec == Init /\ [][OrderNext]_vars

\* ------------------------------------------------ a long candidate list
\* The word list of the first language may hold any number of words of one
\* digit-string; here it holds some more words of the digit-string 88.

\* The most words added: one more than the overlay shows.  As many as the
\* overlay shows are added too, and with none added the list is shorter.
MaxWords == 7

ManyWords ==
    << <<"a", "a">>, <<"a", "b">>, <<"a", "c">>, <<"b", "a">>,
       <<"b", "b">>, <<"b", "c">>, <<"c", "a">> >>

\* T9Engine._load_all_wordlists found these further words in the word list.
SetUpWordList(words) ==
    /\ act = "init"
    /\ lookup' = _index_words(lookup, words, FALSE)
    /\ out' = << >>
    /\ act' = "set_up"
    /\ UNCHANGED <<sequence, candidates, candidate_index, confirmed_words,
                   user_dicts, files, punct_index, overlayVars, appVars, ret>>

OverlayNext(b) ==
    \/ \E n \in (MaxWords - 1)..MaxWords : SetUpWordList(SubSeq(ManyWords, 1, n))
    \/ Next(b)

\* The controller over a word list with up to MaxWords words of one key.
OverlaySpec == Init /\ [][OverlayNext(SpecBounds)]_vars

\* A German word list: words with the letters of DIACRITIC_MAP's German
\* entries, u-umlaut and sharp s.
GermanWords == << <<"f", "u", "ß">>, <<"ü", "b", "e", "l">> >>

GermanNext(b) ==
    \/ SetUpWordList(GermanWords)
    \/ Next(b)

\* The controller over a word list with German words.
GermanSpec == Init /\ [][GermanNext(SpecBounds)]_vars

\* ------------------------------------------------- config.load_config
\* A JSON value is a record: t its type, s its text (the components of a
\* path, the items of a list, the digits of a number) and d the items of an
\* object, <<key, number>> in order.  A JSON object at the top level (the
\* file, the configuration) is a function from its keys to values.  A path
\* is the sequence of its components; one that starts with "/" is absolute.

JStr(parts) == [t |-> "str", s |-> parts, d |-> << >>]
JNum(digits) == [t |-> "num", s |-> <<digits>>, d |-> << >>]
JList(items) == [t |-> "list", s |-> items, d |-> << >>]
JDict(items) == [t |-> "dict", s |-> << >>, d |-> items]

_PACKAGE_DIR == <<"/", "pkg">>
_DEFAULT_CONFIG_PATH == _PACKAGE_DIR \o <<"config.json">>

\* Path.cwd() / "config.json"
CwdConfigPath == <<"/", "work", "config.json">>

\* config.DEFAULTS
DEFAULTS ==
    [k \in {"languages", "wordlist_dir", "user_dict_dir", "overlay", "punctuation"} |->
        CASE k = "languages" -> JList(<<"en">>)
          [] k = "wordlist_dir" -> JStr(_PACKAGE_DIR \o <<"wordlists">>)
          [] k = "user_dict_dir" -> JStr(<<"~", ".config", "numpad_t9">>)
          [] k = "overlay" -> JDict(<< <<"max_candidates", "6">>, <<"offset_x", "16">>,
                                      <<"offset_y", "24">>, <<"opacity", "0.93">> >>)
          [] k = "punctuation" -> JList(PunctList)]

\* What json.load makes of a file: "invalid" (it raises), a JSON array, or
\* a JSON object.
Invalid == [json |-> "invalid", obj |-> [k \in {} |-> JNum("0")]]
JsonArray == [json |-> "array", obj |-> [k \in {} |-> JNum("0")]]
JsonObject(obj) == [json |-> "object", obj |-> obj]

\* dict.update(other) on the items of an object.
RECURSIVE UpdateItems(_, _)
UpdateItems(d, other) ==
    IF other = << >> THEN d
    ELSE UpdateItems(DictSet(d, Head(other)[1], Head(other)[2]), Tail(other))

\* k.startswith("_")
IsCommentKey(k) == k \in {"_comment"}

\* Path(p).is_absolute()
IsAbsolute(parts) == parts # << >> /\ Head(parts) = "/"

\* candidate.parent
Parent(path) == SubSeq(path, 1, Len(path) - 1)

\* The candidates of load_config, in order: path: << >> is no argument, env
\* << >> is no NUMPAD_T9_CONFIG.
ConfigCandidates(path, env) ==
    (IF path # << >> THEN <<path>> ELSE << >>)
        \o (IF env # << >> THEN <<env>> ELSE << >>)
        \o <<CwdConfigPath, _DEFAULT_CONFIG_PATH>>

\* The body of the try block for the file found at candidate: the
\* configuration as it is when the block ends or raises.
MergeConfig(cfg, candidate, content) ==
    LET user == [k \in {x \in DOMAIN content.obj : ~IsCommentKey(x)} |-> content.obj[k]]
        has_overlay == "overlay" \in DOMAIN user
        rest == [k \in DOMAIN user \ {"overlay"} |-> user[k]]
        deep == IF has_overlay
                THEN [cfg EXCEPT !["overlay"] =
                         JDict(UpdateItems(cfg["overlay"].d, user["overlay"].d))]
                ELSE cfg
        merged == [k \in DOMAIN deep \cup DOMAIN rest |->
                      IF k \in DOMAIN rest THEN rest[k] ELSE deep[k]]
    IN  IF content.json = "invalid" THEN [cfg |-> cfg, warned |-> TRUE]
        ELSE IF content.json = "array" THEN [cfg |-> cfg, warned |-> TRUE]
        ELSE IF has_overlay /\ user["overlay"].t # "dict"
        THEN [cfg |-> cfg, warned |-> TRUE]
        ELSE IF merged["wordlist_dir"].t # "str"
        THEN [cfg |-> merged, warned |-> TRUE]
        ELSE IF ~IsAbsolute(merged["wordlist_dir"].s)
        THEN [cfg |-> [merged EXCEPT !["wordlist_dir"] =
                          JStr(Parent(candidate) \o merged["wordlist_dir"].s)],
              warned |-> FALSE]
        ELSE [cfg |-> merged, warned |-> FALSE]

\* The loop of load_config over the candidates left: the first that exists
\* is opened and ends the loop.
RECURSIVE FirstFound(_, _, _)
FirstFound(cfg, cands, fs) ==
    IF cands = << >> THEN [cfg |-> cfg, warned |-> FALSE, opened |-> << >>]
    ELSE IF Head(cands) \in DOMAIN fs
    THEN LET r == MergeConfig(cfg, Head(cands), fs[Head(cands)])
         IN  [cfg |-> r.cfg, warned |-> r.warned, opened |-> <<Head(cands)>>]
    ELSE FirstFound(cfg, Tail(cands), fs)

\* config.load_config(path) with NUMPAD_T9_CONFIG = env and the files fs:
\* the configuration returned, whether a warning was printed, and the files
\* opened.
load_config(path, env, fs) == FirstFound(DEFAULTS, ConfigCandidates(path, env), fs)

\* The explicit path and the environment path that are tried.
ExplicitPath == <<"/", "home", "my.json">>
EnvPath == <<"/", "etc", "t9.json">>

\* The contents a configuration file is given.
ConfigContents ==
    { Invalid,
      JsonArray,
      JsonObject([k \in {"languages"} |-> JList(<<"sv">>)]),
      JsonObject([k \in {"overlay", "_comment"} |->
                     IF k = "overlay" THEN JDict(<< <<"max_candidates", "3">> >>)
                     ELSE JStr(<<"note">>)]),
      JsonObject([k \in {"wordlist_dir"} |-> JStr(<<"lists">>)]),
      JsonObject([k \in {"languages", "overlay"} |->
                     IF k = "overlay" THEN JNum("5") ELSE JList(<<"sv">>)]),
      JsonObject([k \in {"languages", "wordlist_dir"} |->
                     IF k = "wordlist_dir" THEN JNum("5") ELSE JList(<<"sv">>)]) }

\* The files that exist: any of the four candidates, each with any content.
ConfigFileSystems ==
    UNION { [paths -> ConfigContents] :
                paths \in SUBSET {ExplicitPath, EnvPath, CwdConfigPath, _DEFAULT_CONFIG_PATH} }

CallFrame ==
    UNCHANGED <<engineVars, overlayVars, punct_index, hookVars, runVars, out>>

\* The files, the environment and the argument of one call are set up.
SetUpConfig(path, env, fs) ==
    /\ act = "init"
    /\ args' = [path |-> path, env |-> env, fs |-> fs]
    /\ act' = "set_up"
    /\ UNCHANGED ret
    /\ CallFrame

CallLoadConfig ==
    /\ act = "set_up"
    /\ ret' = load_config(args.path, args.env, args.fs)
    /\ act' = "load_config"
    /\ UNCHANGED args
    /\ CallFrame

ConfigNext ==
    \/ \E path \in {<< >>, ExplicitPath}, env \in {<< >>, EnvPath}, fs \in ConfigFileSystems :
           SetUpConfig(path, env, fs)
    \/ CallLoadConfig

\* load_config, called once on every set-up.
ConfigSpec == Init /\ [][ConfigNext]_vars

\* -------------------------------------------------------- add_wordlist.py
\* A text file is the sequence of its lines, a line a Python string.

\* T9_MAP of add_wordlist.py (its own table, not the engine's)
add_wordlist_T9_MAP ==
    [d \in {"2", "3", "4", "5", "6", "7", "8", "9"} |->
        CASE d = "2" -> <<"a", "b", "c">>
          [] d = "3" -> <<"d", "e", "f">>
          [] d = "4" -> <<"g", "h", "i">>
          [] d = "5" -> <<"j", "k", "l">>
          [] d = "6" -> <<"m", "n", "o">>
          [] d = "7" -> <<"p", "q", "r", "s">>
          [] d = "8" -> <<"t", "u", "v">>
          [] d = "9" -> <<"w", "x", "y", "z">>]

\* The keys of DIACRITIC_MAP of add_wordlist.py ("oe" is U+0153).
add_wordlist_DIACRITICS ==
    {"å", "ä", "ö", "ü", "ß", "é", "è", "ê", "ë", "à", "â", "î", "ï", "ô",
     "oe", "ù", "û", "ç", "ñ", "æ", "ø"}

VALID_CHARS ==
    UNION {Range(add_wordlist_T9_MAP[d]) : d \in DOMAIN add_wordlist_T9_MAP}
        \cup add_wordlist_DIACRITICS

\* is_mappable
is_mappable(word) == \A i \in 1..Len(word) : Lower(word)[i] \in VALID_CHARS

\* w.startswith("#")
IsComment(w) == w # << >> /\ Head(w) = "#"

\* A fault C18 detects: unmappable words are kept.
RECURSIVE load_source_KeepsUnmappable(_)
load_source_KeepsUnmappable(lines) ==
    IF lines = << >> THEN << >>
    ELSE LET w == Lower(Strip(Head(lines)))
         IN  IF w = << >> \/ IsComment(w)
             THEN load_source_KeepsUnmappable(Tail(lines))
             ELSE <<w>> \o load_source_KeepsUnmappable(Tail(lines))

\* load_source: the words of the source file, in file order.
RECURSIVE load_source(_)
load_source(lines) ==
    IF lines = << >> THEN << >>
    ELSE LET w == Lower(Strip(Head(lines)))
         IN  IF w = << >> \/ IsComment(w) THEN load_source(Tail(lines))
             ELSE IF is_mappable(w) THEN <<w>> \o load_source(Tail(lines))
             ELSE load_source(Tail(lines))

\* main: the loop that reads the existing destination into a set.
ReadExisting(lines) ==
    {Lower(Strip(lines[i])) : i \in {j \in 1..Len(lines) :
         Lower(Strip(lines[j])) # << >> /\ ~IsComment(Lower(Strip(lines[j])))}}

\* sorted(words) of a set of strings.
RECURSIVE SortedWords(_)
SortedWords(words) ==
    IF words = {} THEN << >>
    ELSE LET least == CHOOSE m \in words : \A x \in words \ {m} : StrLess(m, x)
         IN  <<least>> \o SortedWords(words \ {least})

\* main: header, with the count written as f"{len(combined):,}".
ImportHeader(lang, n) ==
    << <<"#", " ", lang, " word list for Numpad T9">>,
       <<"#", " Imported by add_wordlist.py">>,
       <<"#", " Words: ">> \o Digits(n),
       <<"#", " One word per line. Lines starting with # are ignored.">>,
       << >> >>

\* main(lang, source, --append): source and dest are files, exists and
\* lines; the result is the exit status and the destination afterwards.
main(lang, source, append, dest) ==
    LET new_words == load_source(source.lines)
        existing == IF append /\ dest.exists THEN ReadExisting(dest.lines) ELSE {}
        combined == SortedWords(existing \cup Range(new_words))
    IN  IF ~source.exists THEN [exit |-> 1, dest |-> dest]
        ELSE [exit |-> 0,
              dest |-> [exists |-> TRUE,
                        lines |-> ImportHeader(lang, Len(combined)) \o combined]]

\* The longest source file that is imported.
MaxLines == 2

\* The lines a source file is made of: words to lowercase, to strip and to
\* drop, a duplicate, a blank line and a comment.
ImportLines ==
    { <<"C", "a", "t">>, <<"c", "a", "t">>, <<"d", "o", "g">>, << >>,
      <<"#", "c">>, <<" ", "b", " ">>, <<"a", "-", "b">> }

SourceFiles(n) ==
    {[exists |-> FALSE, lines |-> << >>]}
        \cup {[exists |-> TRUE, lines |-> l] : l \in UNION {[1..k -> ImportLines] : k \in 0..n}}

\* The destinations met: none, one this utility wrote, one written by hand.
DestFiles ==
    { [exists |-> FALSE, lines |-> << >>],
      [exists |-> TRUE, lines |-> ImportHeader("en", 2) \o << <<"b">>, <<"c", "a", "b">> >>],
      [exists |-> TRUE, lines |-> << <<"#", " mine">>, <<"d", "o", "g">>, << >>, <<"a", "b">> >>] }

SetUpImport(source, append, dest) ==
    /\ act = "init"
    /\ args' = [lang |-> "en", source |-> source, append |-> append, dest |-> dest]
    /\ act' = "set_up"
    /\ UNCHANGED ret
    /\ CallFrame

CallMain ==
    /\ act = "set_up"
    /\ ret' = main(args.lang, args.source, args.append, args.dest)
    /\ act' = "add_wordlist"
    /\ UNCHANGED args
    /\ CallFrame

ImportNext(n) ==
    \/ \E source \in SourceFiles(n), append \in BOOLEAN, dest \in DestFiles :
           SetUpImport(source, append, dest)
    \/ CallMain

\* add_wordlist.py, run once on every set-up.
ImportSpec == Init /\ [][ImportNext(MaxLines)]_vars

\* ================================================================ claims

\* The engine is Idle: reset() has run and nothing was pushed since.
Idle == sequence = << >> /\ candidates = << >> /\ candidate_index = 0

\* The dictionary that the file of language lang holds.
FileDict(fs, lang) == IF lang \in DOMAIN fs THEN JsonLoad(fs[lang]) ELSE << >>

\* The count of word in the file of language lang.
FileCount(fs, lang, word) == DictGet(FileDict(fs, lang), word)

\* The personal count of word in the dictionary of language lang.
CountIn(dicts, lang, word) == IF lang \in DOMAIN dicts THEN DictGet(dicts[lang], word) ELSE 0

\* The word a confirmation takes: the selected candidate, or with no
\* candidate the first letter of the group of each digit.
SelectedWord ==
    IF candidates # << >>
    THEN candidates[candidate_index + 1]
    ELSE [i \in 1..Len(sequence) |->
             IF sequence[i] \in DOMAIN T9_MAP THEN T9_MAP[sequence[i]][1] ELSE "?"]

\* C1: whenever the sequence is non-empty (Composing), the overlay is
\* visible, after any sequence of actions and timer callbacks.
C1_ComposingIsVisible == sequence # << >> => visible

\* C2: "confirm" while composing emits the current word followed by a
\* space, leaves the engine Idle and hides the overlay; while idle it emits
\* nothing and changes no state.
C2_ConfirmEmitsWordAndSpace ==
    [][act' = "confirm" =>
          IF sequence # << >>
          THEN /\ out' = <<[op |-> "type", text |-> SelectedWord \o <<" ">>]>>
               /\ Idle'
               /\ ~visible'
          ELSE /\ out' = << >>
               /\ UNCHANGED <<engineVars, overlayVars, punct_index>>]_vars

\* C3: "delete_word" while composing emits no keystroke and leaves
\* confirmed_words, sequence, candidates and candidate_index unchanged.
C3_DeleteWordIgnoredWhileComposing ==
    [][(act' = "delete_word" /\ sequence # << >>) =>
          /\ out' = << >>
          /\ UNCHANGED <<confirmed_words, sequence, candidates, candidate_index>>]_vars

\* C4: "delete_word" while idle with history removes exactly the most
\* recently confirmed word and emits len(word) + 1 backspaces; while idle
\* with no history it emits exactly one backspace and changes no state.
C4_DeleteWordWhileIdle ==
    [][(act' = "delete_word" /\ sequence = << >>) =>
          IF confirmed_words # << >>
          THEN /\ confirmed_words' \o <<confirmed_words[Len(confirmed_words)]>>
                      = confirmed_words
               /\ Len(out') = Len(confirmed_words[Len(confirmed_words)]) + 1
               /\ \A i \in 1..Len(out') : out'[i] = [op |-> "tap", key |-> "backspace"]
          ELSE /\ out' = <<[op |-> "tap", key |-> "backspace"]>>
               /\ UNCHANGED <<engineVars, overlayVars, punct_index>>]_vars

\* C4's case: a two-letter word was deleted and an earlier word is left.
C4_Witness ==
    /\ act = "delete_word"
    /\ sequence = << >>
    /\ Len(out) = 3
    /\ Len(confirmed_words) = 1

\* C5: candidate_index is a valid position of candidates when candidates
\* is non-empty, and 0 when it is empty, after any engine calls.
C5_CandidateIndexValid ==
    IF candidates # << >>
    THEN candidate_index \in 0..(Len(candidates) - 1)
    ELSE candidate_index = 0

\* C5's case: cycle_prev wrapped from the first candidate to the last.
C5_Witness ==
    /\ act = "cycle_prev"
    /\ Len(candidates) = 3
    /\ candidate_index = 2

\* The number of times x occurs in the list l.
Occurrences(l, x) == Cardinality({i \in 1..Len(l) : l[i] = x})

\* The usage of a word summed over the loaded personal dictionaries.
SummedCount(word) ==
    CountIn(user_dicts, "en", word) + CountIn(user_dicts, "sv", word)

\* C6: after push_digit or pop_digit, candidates holds exactly the words of
\* the bucket of the joined sequence, by descending summed personal count
\* and then ascending word: a more used word is before a less used one
\* wherever the alphabet puts it.
C6_CandidatesSorted ==
    act \in {"push_digit", "pop_digit"} =>
        LET bucket == IF sequence \in DOMAIN lookup THEN lookup[sequence] ELSE << >>
        IN  /\ Len(candidates) = Len(bucket)
            /\ \A i \in 1..Len(bucket) :
                   Occurrences(candidates, bucket[i]) = Occurrences(bucket, bucket[i])
            /\ \A i, j \in 1..Len(candidates) :
                   i < j =>
                       \/ SummedCount(candidates[i]) > SummedCount(candidates[j])
                       \/ /\ SummedCount(candidates[i]) = SummedCount(candidates[j])
                          /\ StrLess(candidates[i], candidates[j])

\* C6's case: "c", learned in the second language only, is pushed before
\* "a" and "b".
C6_Witness ==
    /\ act = "push_digit"
    /\ candidates = << <<"c">>, <<"a">>, <<"b">> >>
    /\ CountIn(user_dicts, "en", <<"c">>) = 0

\* C7: confirm() with a non-empty sequence returns the current word, adds
\* exactly 1 to its count in the default language, appends exactly it to
\* confirmed_words and leaves the engine Idle.
C7_EngineConfirm ==
    [][(act' = "confirm" /\ sequence # << >>) =>
          LET word == SelectedWord
          IN  /\ ret' = word
              /\ CountIn(user_dicts', "en", word) = CountIn(user_dicts, "en", word) + 1
              /\ \A w \in (Range(DictKeys(user_dicts'["en"])) \ {word}) :
                     CountIn(user_dicts', "en", w) = CountIn(user_dicts, "en", w)
              /\ confirmed_words' = Append(confirmed_words, word)
              /\ Idle']_vars

\* C7's case: the second candidate was confirmed after an earlier learn.
C7_Witness ==
    /\ act = "confirm"
    /\ ret = <<"b">>
    /\ CountIn(user_dicts, "en", <<"b">>) = 2
    /\ confirmed_words = << <<"b">> >>

\* C8 as stated: each "7" action advances the cursor modulo the length of
\* the list, so that with 13 entries a cursor at 12 becomes 0.
C8_CursorWrapsModulo ==
    [][act' = "7" => punct_index' = (punct_index + 1) % Len(PunctList)]_vars

\* C8, amended: each "7" action emits the entry at position (cursor mod
\* length) and adds 1 to the cursor, which never wraps; the position read
\* is what cycles, so with 13 entries positions 11, 12, 0 follow each other.
C8_PunctuationCycles ==
    [][act' = "7" =>
          /\ punct_index' = punct_index + 1
          /\ out'[Len(out')] =
                 [op |-> "type", text |-> <<PunctList[(punct_index % Len(PunctList)) + 1]>>]
          /\ (punct_index = 11 =>
                  out'[Len(out')] = [op |-> "type", text |-> <<"@">>])
          /\ (punct_index = 12 =>
                  out'[Len(out')] = [op |-> "type", text |-> <<"#">>])
          /\ (punct_index = 13 =>
                  out'[Len(out')] = [op |-> "type", text |-> <<".">>])]_vars

\* C8's case: the fourteenth "7" action emitted the first entry again.
C8_Witness ==
    /\ act = "7"
    /\ punct_index = 14
    /\ out = <<[op |-> "type", text |-> <<".">>]>>

\* C9: "punct_confirm" while composing learns the current word (counted,
\* written to the file, first in its bucket), confirms it, leaves the
\* engine Idle, emits exactly the word and shows the toast "Learned: word";
\* while idle it emits exactly "." and changes no engine state.
C9_PunctConfirm ==
    [][act' = "punct_confirm" =>
          IF sequence # << >>
          THEN LET word == SelectedWord
               IN  /\ out' = <<[op |-> "type", text |-> word]>>
                   /\ CountIn(user_dicts', "en", word) > CountIn(user_dicts, "en", word)
                   /\ "en" \in DOMAIN files'
                   /\ FileDict(files', "en") = user_dicts'["en"]
                   /\ lookup'[sequence][1] = word
                   /\ confirmed_words' = Append(confirmed_words, word)
                   /\ Idle'
                   /\ visible'
                   /\ labels' = <<[text |-> <<"v ", "Learned: ">> \o word,
                                   bg |-> "#1a1a2e", fg |-> "#50fa7b"]>>
          ELSE /\ out' = <<[op |-> "type", text |-> <<".">>]>>
               /\ UNCHANGED engineVars]_vars

\* C9's case: the second candidate was learned and its toast is shown.
C9_Witness ==
    /\ act = "punct_confirm"
    /\ out = <<[op |-> "type", text |-> <<"b">>]>>
    /\ visible
    /\ timers = 1
    /\ lookup[<<"8">>][1] = <<"b">>

\* C10: "cancel" leaves the engine Idle and the overlay hidden, emits
\* nothing and leaves confirmed_words, the personal counts, the index and
\* the punctuation cursor unchanged.
C10_Cancel ==
    [][act' = "cancel" =>
          /\ Idle'
          /\ ~visible'
          /\ out' = << >>
          /\ UNCHANGED <<confirmed_words, user_dicts, lookup, punct_index>>]_vars

\* C10's case: a composition shown with its second candidate selected was
\* cancelled, with a word in the history and the cursor advanced.
C10_Witness ==
    /\ act = "cancel"
    /\ ~visible
    /\ Len(labels) = 3
    /\ labels[2].bg = "#e94560"
    /\ confirmed_words # << >>
    /\ punct_index > 0

\* k consecutive cycle_next calls on the engine value e.
RECURSIVE CycleNextTimes(_, _)
CycleNextTimes(e, k) == IF k = 0 THEN e ELSE CycleNextTimes(cycle_next(e), k - 1)

\* C11: with n >= 1 candidates "next" sets candidate_index to (index + 1)
\* mod n and "prev" to (index - 1) mod n, changing nothing else of the
\* engine; cycle_prev undoes cycle_next, n cycle_next calls return to the
\* starting index, and next, next, prev from 0 of 3 gives 1; with zero
\* candidates both leave the engine as it is, and while idle "next" and
\* "prev" change nothing and emit nothing.
C11_CycleAlgebra ==
    [][act' \in {"next", "prev"} =>
          LET n == Len(candidates)
              step == IF act' = "next" THEN 1 ELSE -1
          IN  /\ out' = << >>
              /\ UNCHANGED <<sequence, candidates, confirmed_words, lookup,
                             user_dicts, files, punct_index>>
              /\ IF sequence = << >>
                 THEN UNCHANGED <<candidate_index, overlayVars>>
                 ELSE IF n = 0
                 THEN candidate_index' = candidate_index
                 ELSE /\ candidate_index' = (candidate_index + step) % n
                      /\ cycle_prev(cycle_next(Engine)) = Engine
                      /\ cycle_next(cycle_prev(Engine)) = Engine
                      /\ CycleNextTimes(Engine, n) = Engine
                      /\ (n = 3 /\ candidate_index = 0) =>
                             cycle_prev(cycle_next(cycle_next(Engine))).candidate_index = 1]_vars

\* C11's case: "prev" stepped back from the last of three candidates, as
\* after next, next, prev from the first.
C11_Witness ==
    /\ act = "prev"
    /\ Len(candidates) = 3
    /\ candidate_index = 1

\* C12: every physical press or release of a key that maps to no action
\* is answered by exactly one synthetic event of that key and kind, whatever
\* events are pending; an injected event that comes back is not forwarded
\* again, and no physical event is dropped.
C12_ForwardedExactlyOnce ==
    [][act' \in {"on_press", "on_release"} =>
          LET ev == Head(os_queue)
          IN  IF ev.origin = "physical" /\ _key_to_action(ev.key) = "None"
              THEN out' = <<[op |-> ev.kind, key |-> ev.key]>>
              ELSE out' = << >>]_vars

\* The action the mapping is said to give: the numpad virtual-key codes,
\* Enter (virtual-key code 13) and Esc; nothing for any other key.
ClaimedAction(key) ==
    IF key.vk # << >>
    THEN CASE key.vk[1] \in 96..105 ->
                   <<"0", "1", "2", "3", "4", "5", "6", "7", "8", "9">>[key.vk[1] - 95]
           [] key.vk[1] = 106 -> "backspace"
           [] key.vk[1] = 107 -> "next"
           [] key.vk[1] = 109 -> "prev"
           [] key.vk[1] = 110 -> "punct_confirm"
           [] key.vk[1] = 111 -> "delete_word"
           [] key.vk[1] = 13 -> "confirm"
           [] OTHER -> "None"
    ELSE CASE key.name = "enter" -> "confirm"
           [] key.name = "esc" -> "cancel"
           [] OTHER -> "None"

\* C13: the mapping recognizes only the numpad virtual-key codes 96-105,
\* 106, 107, 109, 110, 111, 13 and Esc; every other key, Num Lock and the
\* navigation keys included, maps to no action.
C13_OnlyNumpadKeysAreActions ==
    [][(act' \in {"on_press", "on_release"} /\ ret' # "skipped") =>
          ret' = ClaimedAction(Head(os_queue).key)]_vars

\* C14: once the stop flag is set while the loop runs, the poll sees it,
\* the root is destroyed, the loop ends and the Listener is then stopped;
\* the Listener is never stopped before the loop has ended; and while the
\* flag is unset the poll re-arms itself.
C14_StopFlagEndsTheLoop ==
    /\ (_stop /\ pc = "mainloop") ~>
           (root = "destroyed" /\ pc = "done" /\ listener = "stopped")
    /\ [](listener = "stopped" => (root = "destroyed" /\ pc = "done"))
    /\ [](root = "destroyed" => _stop)
    /\ [][act' = "poll" => (IF _stop THEN root' = "destroyed" ELSE poll' /\ root' = "alive")]_vars

\* C14's case: run has ended after handlers ran and the flag was set.
C14_Witness ==
    /\ pc = "done"
    /\ _stop
    /\ root = "destroyed"
    /\ listener = "stopped"
    /\ confirmed_words # << >>

\* The first candidate, in order, that exists.
RECURSIVE Winner(_, _)
Winner(cands, fs) ==
    IF cands = << >> THEN << >>
    ELSE IF Head(cands) \in DOMAIN fs THEN <<Head(cands)>>
    ELSE Winner(Tail(cands), fs)

\* C15: load_config opens only the first existing candidate in the order
\* explicit path, environment path, working-directory file, packaged
\* default; when processing that file fails (a warning is printed) the
\* configuration returned equals the built-in defaults exactly.
C15_FailureGivesDefaults ==
    [][act' = "load_config" =>
          /\ ret'.opened = Winner(ConfigCandidates(args.path, args.env), args.fs)
          /\ ret'.warned => ret'.cfg = DEFAULTS]_vars

\* The candidates an engine value e shows for the digit-string key.
CandidatesFor(e, key) == _refresh_candidates([e EXCEPT !.sequence = key]).candidates

\* In the engine value e the word w is a candidate of its digit-string and
\* no candidate with frequency 0 is before it.
RankedAboveUnused(e, w) ==
    LET cands == CandidatesFor(e, word_to_digits(w))
    IN  /\ w \in Range(cands)
        /\ \A i \in 1..Len(cands) :
               _user_freq(e, cands[i]) = 0 => IndexOf(cands, w) < i

\* The words whose count in the default language's file differs from before.
Recounted(before, after) ==
    {w \in Range(DictKeys(FileDict(after, "en"))) :
         FileCount(after, "en", w) # FileCount(before, "en", w)}

\* C16: after learn_word(w) for the default language the file of that
\* language equals the dictionary in memory, with the count of w one more
\* than before (1 the first time, k the k-th); an engine constructed from
\* the files has the same counts, and ranks every learned word at or above
\* every candidate of the same digit-string that has frequency 0.
C16_PersistedAndRestored ==
    /\ [][act' = "bump_word" =>
             /\ FileDict(files', "en") = user_dicts'["en"]
             /\ \A w \in Recounted(files, files') :
                    /\ Recounted(files, files') = {w}
                    /\ FileCount(files', "en", w) = FileCount(files, "en", w) + 1
                    /\ FileCount(files', "en", w) = CountIn(user_dicts', "en", w)]_vars
    /\ [][act' = "new_engine" =>
             /\ user_dicts' = user_dicts
             /\ \A w \in Range(DictKeys(user_dicts'["en"])) :
                    word_to_digits(w) # << >> => RankedAboveUnused(Engine', w)]_vars

\* C16's case: a word that is in no word list was learned twice and the
\* engine was constructed again from the files.
C16_Witness ==
    /\ act = "new_engine"
    /\ CountIn(user_dicts, "en", <<"a", "a">>) = 2
    /\ lookup[<<"8", "8">>] = << <<"a", "a">> >>

\* C17: whatever the save meets (a failure to create the directory
\* included), learn_word ends with the count one higher in memory and the
\* word first in its bucket, and "confirm" while composing appends the word
\* to confirmed_words, leaves the engine Idle and emits the word.
C17_SaveFailureIsOnlyLogged ==
    /\ [][act' = "learn_word" =>
             LET w == Lower(Strip(args'.word))
             IN  w # << >> =>
                     /\ ret' = "None"
                     /\ CountIn(user_dicts', "en", w) = CountIn(user_dicts, "en", w) + 1
                     /\ lookup'[word_to_digits(w)][1] = w]_vars
    /\ [][(act' = "confirm" /\ sequence # << >>) =>
             /\ CountIn(user_dicts', "en", SelectedWord)
                    = CountIn(user_dicts, "en", SelectedWord) + 1
             /\ confirmed_words' = Append(confirmed_words, SelectedWord)
             /\ Idle'
             /\ out' = <<[op |-> "type", text |-> SelectedWord]>>]_vars

\* The words of a file: its lines stripped and lowercased, blank lines and
\* comment lines left out.
WordsOf(lines) ==
    {w \in {Lower(Strip(lines[i])) : i \in 1..Len(lines)} : w # << >> /\ w[1] # "#"}

\* C18: the destination written is the 5-line header, whose count is the
\* number of words written, followed by the words in strictly ascending
\* order (each once); the words are exactly the source words that map to
\* digits, together with the words of the existing destination when
\* --append is given and it exists.
C18_ImportWritesUnion ==
    [][(act' = "add_wordlist" /\ args.source.exists) =>
          LET written == ret'.dest.lines
              words == SubSeq(written, 6, Len(written))
              kept == {w \in WordsOf(args.source.lines) : word_to_digits(w) # << >>}
              old == IF args.append /\ args.dest.exists
                     THEN WordsOf(args.dest.lines) ELSE {}
          IN  /\ ret'.exit = 0
              /\ Len(written) >= 5
              /\ written[1] = <<"#", " ", "en", " word list for Numpad T9">>
              /\ written[2] = <<"#", " Imported by add_wordlist.py">>
              /\ SubSeq(written[3], 1, 2) = <<"#", " Words: ">>
              /\ Number(SubSeq(written[3], 3, Len(written[3]))) = Len(words)
              /\ written[4] = <<"#", " One word per line. Lines starting with # are ignored.">>
              /\ written[5] = << >>
              /\ \A i \in 1..(Len(words) - 1) : StrLess(words[i], words[i + 1])
              /\ Range(words) = kept \cup old]_vars

\* C18's case: "Cat" and "cat" were appended to a destination holding
\* "b" and "cab": three words are written, "cat" once.
C18_Witness ==
    /\ act = "add_wordlist"
    /\ args.append
    /\ args.source.lines = << <<"C", "a", "t">>, <<"c", "a", "t">> >>
    /\ SubSeq(ret.dest.lines, 6, Len(ret.dest.lines))
           = << <<"b">>, <<"c", "a", "b">>, <<"c", "a", "t">> >>

\* C19: no bucket of the lookup index holds two entries that are equal
\* when both are lowercased, after start-up indexing (word lists appended,
\* personal dictionaries prepended) and after learn_word and confirm calls.
C19_NoDuplicateInBucket ==
    \A key \in DOMAIN lookup :
        \A i, j \in 1..Len(lookup[key]) :
            i # j => Lower(lookup[key][i]) # Lower(lookup[key][j])

\* C19's case: "Cab", entered by hand in a personal dictionary, was loaded
\* into the bucket where both word lists had put "cab", and moved it to the
\* front.
C19_Witness ==
    /\ act = "new_engine"
    /\ DictHas(user_dicts["sv"], <<"C", "a", "b">>)
    /\ lookup[<<"8", "8", "8">>] = << <<"c", "a", "b">>, <<"a", "b", "c">> >>

\* The calls of learn_word one operation makes: learn_word, bump_word and
\* confirm make one (the controller's "0", "7" and "confirm" go through
\* confirm), the controller's "punct_confirm" makes two, the others none.
LearnCalls(a) ==
    CASE a \in {"learn_word", "bump_word", "confirm", "0", "7"} -> 1
      [] a = "punct_confirm" -> 2
      [] OTHER -> 0

\* C20: for every language and word, the personal-dictionary count never
\* decreases from one operation to the next, and the counts grow only by
\* the increments of learn_word: by at most one for each call the
\* operation makes, and not at all in an operation that makes none.
C20_CountsOnlyGrow ==
    [][/\ \A lang \in DOMAIN user_dicts :
           /\ lang \in DOMAIN user_dicts'
           /\ \A i \in 1..Len(user_dicts[lang]) :
                  CountIn(user_dicts', lang, user_dicts[lang][i][1])
                      >= user_dicts[lang][i][2]
       /\ LearnTotal(user_dicts', DOMAIN user_dicts')
              - LearnTotal(user_dicts, DOMAIN user_dicts) <= LearnCalls(act')
      ]_vars

\* A word learned twice in the second language: its count has grown to 2.
C20_Witness ==
    /\ act = "learn_word"
    /\ CountIn(user_dicts, "sv", <<"c">>) = 2

\* The callbacks pynput runs on the Listener thread.
ListenerThreadActs == {"on_press", "on_release"}

\* C21: a step of the Listener thread (_on_press, _on_release) emits no
\* keystroke and changes no state of the controller, the engine or the
\* overlay: it only classifies the event and appends a deferred handler
\* call; emission and mutation are steps of the event-loop thread alone.
C21_ListenerThreadOnlySchedules ==
    [][act' \in ListenerThreadActs =>
          /\ fg' = fg
          /\ out' = << >>
          /\ _injecting' = _injecting
          /\ UNCHANGED <<engineVars, overlayVars, punct_index>>
      ]_vars

\* C22: the interceptor is taken out before every synthetic output and a
\* fresh one is installed after it, so the Listener is never handed a key
\* event the controller produced itself: every event a callback handles
\* is a physical one, and no emission queues an event for a running
\* Listener.
C22_NoEmissionIsObserved ==
    [][/\ act' \in ListenerThreadActs => Head(os_queue).origin = "physical"
       /\ (fg' # fg /\ listener' = "running") =>
              \A i \in 1..Len(os_queue') : os_queue'[i].origin = "physical"
      ]_vars

\* The actions T9App._handle is called with by the event loop.
HandlerActs ==
    {"1", "2", "3", "4", "5", "6", "7", "8", "9", "0", "next", "prev",
     "confirm", "punct_confirm", "backspace", "delete_word", "cancel"}

\* C23: once the stop flag is set at most one deferred handler call runs
\* before the loop is torn down.  The flag is set by a step of its own, so
\* a state with the flag set whose last step was a handler call is one
\* where a handler has run since; no second handler call follows it.
C23_AtMostOneHandlerAfterStop ==
    [][(_stop /\ act \in HandlerActs) => act' \notin HandlerActs]_vars

\* C24: after learn_word(w), the word whose count has just grown, the
\* lookup of w's digit-string ranks w before every other candidate whose
\* summed personal frequency equals that of w.
C24_LearnedOutranksEqualSiblings ==
    [][\A lang \in DOMAIN user_dicts' :
          \A i \in 1..Len(user_dicts'[lang]) :
              LET w == user_dicts'[lang][i][1]
                  cands == CandidatesFor(Engine', word_to_digits(w))
              IN  (/\ CountIn(user_dicts', lang, w) > CountIn(user_dicts, lang, w)
                   /\ w \in Range(cands)) =>
                      \A j \in 1..Len(cands) :
                          (/\ cands[j] # w
                           /\ _user_freq(Engine', cands[j]) = _user_freq(Engine', w)) =>
                              IndexOf(cands, w) < j
      ]_vars

\* The number of characters the kb.type calls of one handler emit.
RECURSIVE CharsTyped(_)
CharsTyped(o) ==
    IF o = << >> THEN 0
    ELSE (IF Head(o).op = "type" THEN Len(Head(o).text) ELSE 0) + CharsTyped(Tail(o))

\* The actions that confirm a composition.
ConfirmingActs == {"0", "7", "confirm", "punct_confirm"}

\* C25: whichever action confirms a composition, the characters it emits
\* are as many as the backspaces delete_word emits for the word it put on
\* confirmed_words, len(word) + 1.
C25_DeleteWordErasesWhatWasTyped ==
    [][(act' \in ConfirmingActs /\ sequence # << >>) =>
          CharsTyped(out') =
              Len(Backspaces(Len(confirmed_words'[Len(confirmed_words')]) + 1))
      ]_vars

\* C26: output reaches the foreground application in the order of the
\* physical key events.  The Listener handles the events in the order they
\* were struck, so a handler call still queued belongs to a key struck
\* before the one _on_press is handling: no physical press is forwarded
\* while such a call is waiting to emit its output.
C26_OutputInKeyOrder ==
    [][(/\ act' = "on_press"
        /\ fg' # fg
        /\ Head(os_queue).origin = "physical") => after_queue = << >>]_vars

\* The actions after which _handle calls _refresh.
RefreshActs == {"1", "2", "3", "4", "5", "6", "8", "9", "next", "prev", "backspace"}

\* The rows of the overlay drawn as the selected one.
SelectedRows(rows) == {i \in 1..Len(rows) : rows[i].bg = "#e94560"}

\* C27: whenever the overlay is refreshed for a composition that has a
\* candidate, exactly one row is drawn as selected and it shows the
\* candidate at candidate_index.
C27_SelectedCandidateIsShown ==
    [][(act' \in RefreshActs /\ sequence' # << >> /\ candidates' # << >>) =>
          /\ Cardinality(SelectedRows(labels')) = 1
          /\ \A i \in SelectedRows(labels') :
                 labels'[i].text = <<"> ">> \o candidates'[candidate_index' + 1]
      ]_vars

\* The digits _handle pushes into the sequence: those of "123456789" but "7".
PushedDigits == {"1", "2", "3", "4", "5", "6", "8", "9"}

\* C28: every word of the lookup index is filed under word_to_digits of
\* itself, and that key is made only of digits the controller pushes, so
\* that some sequence of digit actions has the word among its candidates.
C28_IndexedWordsAreReachable ==
    \A key \in DOMAIN lookup :
        \A i \in 1..Len(lookup[key]) :
            /\ word_to_digits(lookup[key][i]) = key
            /\ \A j \in 1..Len(key) : key[j] \in PushedDigits

\* C29: confirming a composition that has no candidate learns the fallback
\* word, the first letter of the group of each digit: its count in the
\* default language is at least 1 afterwards, it is in the lookup index
\* under the digit-string that was composed and under no other, and that
\* digit-string composed again has it among its candidates.  The first
\* letter of every digit the controller pushes maps back to that digit.
C29_FallbackIsLearned ==
    [][(act' \in ConfirmingActs /\ sequence # << >> /\ candidates = << >>) =>
          LET key == Join(sequence)
              word == [i \in 1..Len(sequence) |-> T9_MAP[sequence[i]][1]]
          IN  /\ \A d \in PushedDigits : word_to_digits(<<T9_MAP[d][1]>>) = <<d>>
              /\ CountIn(user_dicts', DefaultLang, word) >= 1
              /\ key \in DOMAIN lookup'
              /\ \A k \in DOMAIN lookup' : word \in Range(lookup'[k]) <=> k = key
              /\ word \in Range(CandidatesFor(Engine', key))
      ]_vars

\* The digit-string 88 has no word; its fallback "aa" was confirmed and 88
\* was then composed again.
C29_Witness ==
    /\ act = "8"
    /\ sequence = <<"8", "8">>
    /\ candidates = << <<"a", "a">> >>
    /\ CountIn(user_dicts, DefaultLang, <<"a", "a">>) >= 1
    /\ confirmed_words # << >>

\* The word a confirming action typed: the text of its first kb.type call,
\* without the space that "0" types after it.
EmittedWord(o, a) ==
    IF a = "0" THEN SubSeq(o[1].text, 1, Len(o[1].text) - 1) ELSE o[1].text

\* C30: while composing, "punct_confirm" adds exactly 2 to the count of the
\* confirmed word in the default language and each of "0", "confirm" and
\* "7" adds exactly 1; each of them appends the word to confirmed_words
\* exactly once, and the word typed is the word appended.
C30_ConfirmingActionsCount ==
    [][(act' \in ConfirmingActs /\ sequence # << >>) =>
          LET word == SelectedWord
              n == IF act' = "punct_confirm" THEN 2 ELSE 1
          IN  /\ CountIn(user_dicts', DefaultLang, word)
                     = CountIn(user_dicts, DefaultLang, word) + n
              /\ LearnTotal(user_dicts', DOMAIN user_dicts')
                     = LearnTotal(user_dicts, DOMAIN user_dicts) + n
              /\ confirmed_words' = Append(confirmed_words, word)
              /\ out' # << >>
              /\ out'[1].op = "type"
              /\ EmittedWord(out', act') = confirmed_words'[Len(confirmed_words')]
              /\ act' = "0" => out'[1].text[Len(out'[1].text)] = " "
      ]_vars

\* A first candidate confirmed by "punct_confirm": counted twice, on
\* confirmed_words once.
C30_Witness ==
    /\ act = "punct_confirm"
    /\ out = <<Type(<<"a">>)>>
    /\ CountIn(user_dicts, DefaultLang, <<"a">>) = 2
    /\ confirmed_words = << <<"a">> >>

====
